---------------------------- MODULE Spec2Model ----------------------------
(***************************************************************************)
(* ReadCluster (src/src/Algorithm/ReadCluster.cpp): a cluster of           *)
(* overlapping reads grown breadth-first from seed reads through queries    *)
(* against the FM-index.  One ReadCluster object is modelled over its       *)
(* lifetime: addSeed calls, one run(max), then getOutput.                   *)
(***************************************************************************)
EXTENDS Integers, Sequences, FiniteSets, TLC

(***************************************************************************)
(* Bounds of the model.                                                    *)
(***************************************************************************)
\* addSeed calls made before run
MaxSeeds == 2
\* overlap blocks in one block list returned by overlapRead
MaxHits == 2
\* the values of run's argument max are 0..MaxSizeBound and 10
MaxSizeBound == 2

(***************************************************************************)
(* The index (the OverlapAlgorithm / BWT collaborator).  A read is named by *)
(* its sequence.                                                            *)
(***************************************************************************)
\* reads of the index that are full reads, not contained in another read
IndexedReads == {"ACGTACGT", "ACGTACGTTT", "CGTACGTTTA"}

\* a sequence that is a proper substring of some read of the index
SubstringReads == {"CGTA"}

\* a sequence that is neither in the index nor a substring of a read
AbsentReads == {"GGGG"}

Sequences == IndexedReads \cup SubstringReads \cup AbsentReads

BWTInterval(l, u) == [lower |-> l, upper |-> u]

\* BWTInterval::isValid
isValid(interval) == interval.lower <= interval.upper

\* m_pOverlapper->alignReadDuplicate(record, &blockList).isSubstring
isSubstring(sequence) == sequence \in SubstringReads

\* BWTAlgorithms::findInterval followed by updateInterval(interval, '$', pBWT):
\* the interval of the reads that are exactly `sequence`.  A sequence that is
\* not a read yields an interval with lower = upper + 1, placed where the
\* sequence would sort: "GGGG" sorts after every read of the index.
findInterval(sequence) ==
    CASE sequence = "ACGTACGT"   -> BWTInterval(4, 4)
      [] sequence = "ACGTACGTTT" -> BWTInterval(7, 7)
      [] sequence = "CGTACGTTTA" -> BWTInterval(7, 8)
      [] sequence = "CGTA"       -> BWTInterval(2, 1)
      [] OTHER                   -> BWTInterval(9, 8)

\* An overlap block is named by the read it leads to.
\* OverlapBlock::getCanonicalInterval
getCanonicalInterval(block) == findInterval(block)

\* OverlapBlock::getFullString(original)
getFullString(block, original) == block

\* OverlapBlock::flags.isTargetRev()
isTargetRev(block) == block = "CGTACGTTTA"

\* The block lists overlapRead can return: up to MaxHits different blocks, in
\* any order, and the lists of TwoEdgeLists.
RECURSIVE SeqsUpTo(_, _)
SeqsUpTo(S, n) ==
    IF n = 0 THEN {<<>>}
    ELSE LET shorter == SeqsUpTo(S, n - 1)
             longest == {t \in shorter : Len(t) = n - 1}
         IN  shorter \cup
             UNION {{Append(t, x) : x \in S \ {t[i] : i \in 1 .. Len(t)}} : t \in longest}

\* a block list in which one read is reached through two overlaps
TwoEdgeLists == {<<block, block>> : block \in IndexedReads}

BlockLists == SeqsUpTo(IndexedReads, MaxHits) \cup TwoEdgeLists

\* marker of a block list the index has not been asked for yet
NoBlockList == <<"?">>

(***************************************************************************)
(* ClusterNode                                                              *)
(***************************************************************************)
ClusterNode(sequence, interval, isReverseInterval) ==
    [sequence |-> sequence, interval |-> interval,
     isReverseInterval |-> isReverseInterval]

\* BWTInterval::compare, through ClusterNode::compare
compare(a, b) ==
    \/ a.interval.lower < b.interval.lower
    \/ /\ a.interval.lower = b.interval.lower
       /\ a.interval.upper < b.interval.upper

\* BWTInterval::equal, through ClusterNode::equal
equal(a, b) ==
    /\ a.interval.lower = b.interval.lower
    /\ a.interval.upper = b.interval.upper

\* the emptyNode of addSeed: default sequence and flag, interval [0, -1]
emptyNode == ClusterNode("", BWTInterval(0, -1), FALSE)

\* A returned value is held in a sequence of length one; the empty sequence
\* says that the call has not returned a value.
NoValue == <<>>

Returned(value) == <<value>>

VARIABLES
    pc,            \* where the caller of the ReadCluster is
    m_queue,       \* std::queue<ClusterNode>
    m_outCluster,  \* ClusterNodeVector
    m_usedIndex,   \* std::set<int64_t>
    max,           \* the argument of run
    blocks,        \* the block list overlapRead returns for each sequence
    seedCall,      \* the addSeed call just made: its arguments and return value
    numSeedCalls,  \* the number of addSeed calls made
    numSeedNodes,  \* the number of nodes addSeed has pushed
    pushed,        \* every node m_queue.push was called with, in order
    output         \* the value getOutput returned

vars == <<pc, m_queue, m_outCluster, m_usedIndex, max, blocks, seedCall,
          numSeedCalls, numSeedNodes, pushed, output>>

\* the record of an addSeed call; ret is NoValue when the call did not return
SeedCall(sequence, bCheckInIndex, ret) ==
    [sequence |-> sequence, bCheckInIndex |-> bCheckInIndex, ret |-> ret]

\* addSeed has not been called
NoSeedCall == SeedCall("", FALSE, NoValue)

\* the value of max before run is called
NoMax == -1

Init ==
    /\ pc = "seeding"
    /\ m_queue = <<>>
    /\ m_outCluster = <<>>
    /\ m_usedIndex = {}
    /\ max = NoMax
    /\ blocks = [s \in Sequences |-> NoBlockList]
    /\ seedCall = NoSeedCall
    /\ numSeedCalls = 0
    /\ numSeedNodes = 0
    /\ pushed = <<>>
    /\ output = NoValue


(***************************************************************************)
(* addSeed                                                                  *)
(***************************************************************************)
\* an addSeed that does not check the interval of a seed required in the index
seedOutcomeNoIndexCheck(sequence, bCheckInIndex) ==
    IF isSubstring(sequence)
    THEN IF bCheckInIndex THEN "exit" ELSE "skip"
    ELSE "push"

\* an addSeed that warns about a substring seed and goes on to enqueue it
seedOutcomeSubstringPushed(sequence, bCheckInIndex) ==
    IF isSubstring(sequence)
    THEN IF bCheckInIndex THEN "exit" ELSE "push"
    ELSE IF bCheckInIndex /\ ~isValid(findInterval(sequence))
         THEN "exit"
         ELSE "push"

\* an addSeed that reports a fatal seed by returning emptyNode
seedOutcomeNeverExits(sequence, bCheckInIndex) ==
    IF isSubstring(sequence)
    THEN "skip"
    ELSE IF bCheckInIndex /\ ~isValid(findInterval(sequence))
         THEN "skip"
         ELSE "push"

\* Which way addSeed(sequence, bCheckInIndex) leaves: "exit" (exit(1) or
\* exit(EXIT_FAILURE)), "skip" (return emptyNode) or "push".
seedOutcome(sequence, bCheckInIndex) ==
    IF isSubstring(sequence)
    THEN IF bCheckInIndex THEN "exit" ELSE "skip"
    ELSE IF bCheckInIndex /\ ~isValid(findInterval(sequence))
         THEN "exit"
         ELSE "push"

\* a seed node built with the reverse orientation
seedNodeReverse(sequence) == ClusterNode(sequence, findInterval(sequence), TRUE)

\* the node addSeed builds, registers and enqueues
seedNode(sequence) == ClusterNode(sequence, findInterval(sequence), FALSE)

AddSeed(sequence, bCheckInIndex) ==
    /\ pc = "seeding"
    /\ numSeedCalls < MaxSeeds
    /\ numSeedCalls' = numSeedCalls + 1
    /\ LET outcome == seedOutcome(sequence, bCheckInIndex)
           node == seedNode(sequence)
       IN  CASE outcome = "exit" ->
                  /\ pc' = "exited"
                  /\ seedCall' = SeedCall(sequence, bCheckInIndex, NoValue)
                  /\ UNCHANGED <<m_queue, m_usedIndex, pushed, numSeedNodes>>
             [] outcome = "skip" ->
                  /\ pc' = pc
                  /\ seedCall' = SeedCall(sequence, bCheckInIndex, Returned(emptyNode))
                  /\ UNCHANGED <<m_queue, m_usedIndex, pushed, numSeedNodes>>
             [] OTHER ->
                  /\ pc' = pc
                  /\ m_usedIndex' = m_usedIndex \cup {node.interval.lower}
                  /\ m_queue' = Append(m_queue, node)
                  /\ pushed' = Append(pushed, node)
                  /\ numSeedNodes' = numSeedNodes + 1
                  /\ seedCall' = SeedCall(sequence, bCheckInIndex, Returned(node))
    /\ UNCHANGED <<m_outCluster, max, blocks, output>>

(***************************************************************************)
(* run                                                                      *)
(***************************************************************************)
\* the values run is called with
MaxSizes == (0 .. MaxSizeBound) \cup {10}

\* the caller calls run(m); the node the last addSeed returned is dropped
RunCall(m) ==
    /\ pc = "seeding"
    /\ pc' = "run"
    /\ max' = m
    /\ seedCall' = NoSeedCall
    /\ UNCHANGED <<m_queue, m_outCluster, m_usedIndex, blocks, numSeedCalls,
                   numSeedNodes, pushed, output>>

\* a bound check that fires one node early
boundExceededOffByOne(queue, outCluster, m) == Len(queue) + Len(outCluster) >= m

\* a bound check that counts the admitted nodes only
boundExceededOutputOnly(queue, outCluster, m) == Len(outCluster) > m

\* the bound check at the top of the loop body
boundExceeded(queue, outCluster, m) == Len(queue) + Len(outCluster) > m

\* an abort that forgets m_outCluster.clear()
RunAbortKeepsOutput ==
    /\ pc = "run"
    /\ m_queue # <<>>
    /\ Len(m_queue) + Len(m_outCluster) > max
    /\ m_queue' = <<>>
    /\ pc' = "aborted"
    /\ UNCHANGED <<m_outCluster, m_usedIndex, max, blocks, seedCall,
                   numSeedCalls, numSeedNodes, pushed, output>>

\* an abort that clears m_usedIndex as well
RunAbortClearsUsed ==
    /\ pc = "run"
    /\ m_queue # <<>>
    /\ Len(m_queue) + Len(m_outCluster) > max
    /\ m_queue' = <<>>
    /\ m_outCluster' = <<>>
    /\ m_usedIndex' = {}
    /\ pc' = "aborted"
    /\ UNCHANGED <<max, blocks, seedCall, numSeedCalls, numSeedNodes, pushed,
                   output>>

\* an abort that clears the output and goes round the loop again
RunAbortRetries ==
    /\ pc = "run"
    /\ m_queue # <<>>
    /\ Len(m_queue) + Len(m_outCluster) > max
    /\ m_outCluster' = <<>>
    /\ UNCHANGED <<pc, m_queue, m_usedIndex, max, blocks, seedCall,
                   numSeedCalls, numSeedNodes, pushed, output>>

\* the bound is exceeded: empty the queue, clear the output, return
RunAbort ==
    /\ pc = "run"
    /\ m_queue # <<>>
    /\ boundExceeded(m_queue, m_outCluster, max)
    /\ m_queue' = <<>>
    /\ m_outCluster' = <<>>
    /\ pc' = "aborted"
    /\ UNCHANGED <<m_usedIndex, max, blocks, seedCall, numSeedCalls,
                   numSeedNodes, pushed, output>>

\* an expansion that does not look the canonical index up
isNewIndexAlways(canonicalIndex, usedIndex) == TRUE

\* is the read of this canonical index not part of the cluster yet
isNewIndex(canonicalIndex, usedIndex) == canonicalIndex \notin usedIndex

\* the node built for a block of the block list of `node`
newNode(iter, node) ==
    ClusterNode(getFullString(iter, node.sequence), getCanonicalInterval(iter),
                isTargetRev(iter))

\* a loop over the block list that ends after its first block
parseBlockListHeadOnly(blockList, node, st) ==
    IF blockList = <<>>
    THEN st
    ELSE LET iter == Head(blockList)
             canonicalIndex == getCanonicalInterval(iter).lower
         IN  IF isNewIndex(canonicalIndex, st.usedIndex)
             THEN [usedIndex |-> st.usedIndex \cup {canonicalIndex},
                   queue |-> Append(st.queue, newNode(iter, node)),
                   pushed |-> Append(st.pushed, newNode(iter, node))]
             ELSE st

\* a loop over the block list that puts new nodes at the front of the queue
RECURSIVE parseBlockListPushFront(_, _, _)
parseBlockListPushFront(blockList, node, st) ==
    IF blockList = <<>>
    THEN st
    ELSE LET iter == Head(blockList)
             canonicalIndex == getCanonicalInterval(iter).lower
         IN  parseBlockListPushFront(Tail(blockList), node,
                 IF isNewIndex(canonicalIndex, st.usedIndex)
                 THEN [usedIndex |-> st.usedIndex \cup {canonicalIndex},
                       queue |-> <<newNode(iter, node)>> \o st.queue,
                       pushed |-> Append(st.pushed, newNode(iter, node))]
                 ELSE st)

\* a loop over the block list that enqueues new nodes without registering
\* their index
RECURSIVE parseBlockListNoInsert(_, _, _)
parseBlockListNoInsert(blockList, node, st) ==
    IF blockList = <<>>
    THEN st
    ELSE LET iter == Head(blockList)
             canonicalIndex == getCanonicalInterval(iter).lower
         IN  parseBlockListNoInsert(Tail(blockList), node,
                 IF isNewIndex(canonicalIndex, st.usedIndex)
                 THEN [usedIndex |-> st.usedIndex,
                       queue |-> Append(st.queue, newNode(iter, node)),
                       pushed |-> Append(st.pushed, newNode(iter, node))]
                 ELSE st)

\* The for loop over the block list.  st holds the queue, the used indices
\* and the pushes made so far.
RECURSIVE parseBlockList(_, _, _)
parseBlockList(blockList, node, st) ==
    IF blockList = <<>>
    THEN st
    ELSE LET iter == Head(blockList)
             canonicalIndex == getCanonicalInterval(iter).lower
         IN  parseBlockList(Tail(blockList), node,
                 IF isNewIndex(canonicalIndex, st.usedIndex)
                 THEN [usedIndex |-> st.usedIndex \cup {canonicalIndex},
                       queue |-> Append(st.queue, newNode(iter, node)),
                       pushed |-> Append(st.pushed, newNode(iter, node))]
                 ELSE st)

\* One iteration of the while loop that passes the bound check: dequeue the
\* front node, admit it, ask the index for its overlaps and parse them.  The
\* index answers the same sequence with the same block list every time.
RunExpand ==
    /\ pc = "run"
    /\ m_queue # <<>>
    /\ ~boundExceeded(m_queue, m_outCluster, max)
    /\ LET node == Head(m_queue)
       IN  \E blockList \in BlockLists :
             /\ blocks[node.sequence] \in {NoBlockList, blockList}
             /\ blocks' = [blocks EXCEPT ![node.sequence] = blockList]
             /\ LET st == parseBlockList(blockList, node,
                              [usedIndex |-> m_usedIndex,
                               queue |-> Tail(m_queue),
                               pushed |-> pushed])
                IN  /\ m_queue' = st.queue
                    /\ m_usedIndex' = st.usedIndex
                    /\ pushed' = st.pushed
             /\ m_outCluster' = Append(m_outCluster, node)
    /\ UNCHANGED <<pc, max, seedCall, numSeedCalls, numSeedNodes, output>>

\* the queue is empty: the while loop ends and run returns
RunReturn ==
    /\ pc = "run"
    /\ m_queue = <<>>
    /\ pc' = "completed"
    /\ UNCHANGED <<m_queue, m_outCluster, m_usedIndex, max, blocks, seedCall,
                   numSeedCalls, numSeedNodes, pushed, output>>

(***************************************************************************)
(* getOutput                                                                *)
(***************************************************************************)
\* v without its i-th element
without(v, i) == SubSeq(v, 1, i - 1) \o SubSeq(v, i + 1, Len(v))

\* a getOutput without the std::sort pass
sortedNot(v) == {v}

\* std::sort with ClusterNode::compare: the vectors it can leave are the
\* permutations of v in which no node is less than a node before it (the order
\* of nodes that compare equivalent is not specified).  Each is built by
\* taking, again and again, a node that no remaining node is less than.
RECURSIVE sorted(_)
sorted(v) ==
    IF v = <<>>
    THEN {<<>>}
    ELSE UNION {{<<v[i]>> \o rest : rest \in sorted(without(v, i))} :
                i \in {k \in 1 .. Len(v) : \A j \in 1 .. Len(v) : ~compare(v[j], v[k])}}

\* a getOutput without the std::unique pass
uniqueKeepsAll(v) == v

\* std::unique with ClusterNode::equal followed by erase: of every run of
\* consecutive equal nodes the first is kept
RECURSIVE unique(_)
unique(v) ==
    IF Len(v) <= 1
    THEN v
    ELSE LET rest == unique(Tail(v))
         IN  IF equal(Head(v), Head(rest))
             THEN <<Head(v)>> \o Tail(rest)
             ELSE <<Head(v)>> \o rest

\* the vectors getOutput can return for the cluster
getOutput(outCluster) == {unique(retVector) : retVector \in sorted(outCluster)}

GetOutput ==
    /\ pc \in {"aborted", "completed"}
    /\ output = NoValue
    /\ \E retVector \in getOutput(m_outCluster) : output' = Returned(retVector)
    /\ UNCHANGED <<pc, m_queue, m_outCluster, m_usedIndex, max, blocks,
                   seedCall, numSeedCalls, numSeedNodes, pushed>>

Next ==
    \/ \E sequence \in Sequences, bCheckInIndex \in BOOLEAN :
          AddSeed(sequence, bCheckInIndex)
    \/ \E m \in MaxSizes : RunCall(m)
    \/ RunAbort
    \/ RunExpand
    \/ RunReturn
    \/ GetOutput

Spec == Init /\ [][Next]_vars

\* run is one sequential computation: once called, its next step is taken
FairSpec == Spec /\ WF_vars(RunAbort \/ RunExpand \/ RunReturn)

(***************************************************************************)
(* Properties                                                               *)
(***************************************************************************)
Range(v) == {v[i] : i \in 1 .. Len(v)}

\* the identity key of a node: the lower bound of its interval
Key(node) == node.interval.lower

Keys(v) == {Key(node) : node \in Range(v)}

\* run has returned
RunReturned == pc \in {"aborted", "completed"}

\* C1: the list getOutput returns never holds two nodes with the same
\* identity interval (same lower and same upper bound).
C1_OutputIntervalsUnique ==
    \A retVector \in Range(output) :
        \A i, j \in 1 .. Len(retVector) :
            i # j => retVector[i].interval # retVector[j].interval

\* getOutput has returned a cluster in which two admitted nodes had the same
\* interval
C1_Witness ==
    /\ output # NoValue
    /\ \E i, j \in 1 .. Len(m_outCluster) :
          i # j /\ m_outCluster[i].interval = m_outCluster[j].interval

\* C2: when a bound check of run finds queue size + admitted size > max, run
\* returns at once with the queue and the admitted list empty, and getOutput
\* then returns the empty list: no partial cluster is returned.
C2_AbortAllOrNothing ==
    /\ [][(/\ pc = "run"
           /\ m_queue # <<>>
           /\ Len(m_queue) + Len(m_outCluster) > max)
          => (pc' = "aborted" /\ m_queue' = <<>> /\ m_outCluster' = <<>>)]_vars
    /\ [](pc = "aborted"
          => /\ m_queue = <<>>
             /\ m_outCluster = <<>>
             /\ output \in {NoValue, Returned(<<>>)})

\* run aborted after it had admitted and expanded a node, and getOutput
\* returned the empty list
C2_Witness ==
    /\ pc = "aborted"
    /\ output = Returned(<<>>)
    /\ \E sequence \in Sequences : blocks[sequence] # NoBlockList

\* C3 as claimed: when run aborts, the visited set ends empty.
C3_VisitedClearedOnAbort == pc = "aborted" => m_usedIndex = {}

\* C3, amended: when run aborts, the queue and the admitted list are cleared
\* and the visited set is left as it was: it holds the key of every node that
\* was pushed.
C3_VisitedKeptOnAbort ==
    pc = "aborted"
    => /\ m_queue = <<>>
       /\ m_outCluster = <<>>
       /\ m_usedIndex = Keys(pushed)
       /\ m_usedIndex # {}

\* run aborted with two keys in the visited set
C3_Witness == pc = "aborted" /\ Cardinality(m_usedIndex) >= 2

\* the two nodes of the example
ExampleSeed == ClusterNode("ACGTACGT", BWTInterval(4, 4), FALSE)

ExampleHit == ClusterNode("ACGTACGTTT", BWTInterval(7, 7), FALSE)

\* the example: the one seed [4,4], whose block list holds the one hit [7,7]
ExampleRun ==
    /\ numSeedCalls = 1
    /\ numSeedNodes = 1
    /\ pushed # <<>>
    /\ Head(pushed) = ExampleSeed
    /\ blocks["ACGTACGT"] = <<"ACGTACGTTT">>

\* C4: run aborts exactly when the number of nodes enqueued (the seeds and the
\* nodes of new keys found through overlap hits) is greater than max; when it
\* is at most max, run completes and the admitted list is every enqueued node.
\* One seed [4,4] with one hit [7,7] gives ([4,4], [7,7]) for max = 10 and the
\* empty list for max = 1.
C4_AbortIffTooLarge ==
    /\ RunReturned => (pc = "aborted" <=> Len(pushed) > max)
    /\ pc = "completed" => m_outCluster = pushed
    /\ (pc = "completed" /\ output # NoValue)
       => {node.interval : node \in Range(output[1])}
          = {node.interval : node \in Range(pushed)}
    /\ (ExampleRun /\ RunReturned /\ output # NoValue /\ max = 10)
       => output = Returned(<<ExampleSeed, ExampleHit>>)
    /\ (ExampleRun /\ RunReturned /\ output # NoValue /\ max = 1)
       => output = Returned(<<>>)

\* the example with max = 1: getOutput returned the empty list
C4_Witness ==
    /\ ExampleRun
    /\ max = 1
    /\ pc = "aborted"
    /\ Len(pushed) = 2
    /\ output = Returned(<<>>)

\* the example with max = 10: both nodes are returned
C4_WitnessComplete ==
    /\ ExampleRun
    /\ max = 10
    /\ output = Returned(<<ExampleSeed, ExampleHit>>)

\* C5 as claimed: over the lifetime of the ReadCluster no two pushes onto the
\* queue have the same identity key, seeds included.
C5_KeyPushedOnce ==
    \A i, j \in 1 .. Len(pushed) : i # j => Key(pushed[i]) # Key(pushed[j])

\* the nodes a step pushes onto the queue
NewlyPushed == SubSeq(pushed', Len(pushed) + 1, Len(pushed'))

\* the blocks of blockList whose key is neither in usedIndex nor the key of a
\* block before it in blockList
FirstOfNewKeys(blockList, usedIndex) ==
    {i \in 1 .. Len(blockList) :
        /\ getCanonicalInterval(blockList[i]).lower \notin usedIndex
        /\ \A j \in 1 .. i - 1 :
              getCanonicalInterval(blockList[j]).lower
              # getCanonicalInterval(blockList[i]).lower}

\* C6: a step of run enqueues an overlap hit only if its key is not in the
\* visited set, and adds the key to the visited set in the same step: a hit
\* that leads to a seeded, queued or admitted read, or a second hit of the
\* same key in one block list, is not enqueued.
C6_EnqueueOnlyUnvisited ==
    [][pc = "run"
       => /\ \A i \in 1 .. Len(NewlyPushed) :
                /\ Key(NewlyPushed[i]) \notin m_usedIndex
                /\ Key(NewlyPushed[i]) \in m_usedIndex'
                /\ Key(NewlyPushed[i]) \notin Keys(m_queue) \cup Keys(m_outCluster)
                /\ \A j \in 1 .. Len(NewlyPushed) :
                      i # j => Key(NewlyPushed[i]) # Key(NewlyPushed[j])
          /\ (m_outCluster' # m_outCluster /\ pc' = "run")
             => LET node == Head(m_queue)
                    blockList == blocks'[node.sequence]
                IN  /\ Len(NewlyPushed)
                       = Cardinality(FirstOfNewKeys(blockList, m_usedIndex))
                    /\ m_usedIndex' = m_usedIndex \cup
                          {getCanonicalInterval(blockList[i]).lower :
                              i \in 1 .. Len(blockList)}]_vars

\* the seed [4,4] was expanded with a block list of two hits of key 7, of
\* which one was enqueued, and that node was expanded with a hit back to [4,4]
C6_Witness ==
    /\ pc = "run"
    /\ blocks["ACGTACGT"] = <<"ACGTACGTTT", "CGTACGTTTA">>
    /\ blocks["ACGTACGTTT"] = <<"ACGTACGT">>
    /\ Len(pushed) = 2
    /\ Len(m_outCluster) = 2

\* a step that is a call of addSeed
AddSeedStep == pc = "seeding" /\ numSeedCalls' = numSeedCalls + 1

\* the fatal conditions of addSeed
FatalSeed(sequence, bCheckInIndex) ==
    bCheckInIndex /\ (isSubstring(sequence) \/ ~isValid(findInterval(sequence)))

\* C7: addSeed(sequence, true) ends in the fatal outcome exactly when the
\* sequence is a substring of a read or its interval is empty; then no node is
\* enqueued, the visited set is not extended, and nothing runs afterwards.
C7_FatalSeedExactly ==
    /\ [][(AddSeedStep /\ seedCall'.bCheckInIndex)
          => /\ pc' = "exited"
                <=> (\/ isSubstring(seedCall'.sequence)
                     \/ ~isValid(findInterval(seedCall'.sequence)))
             /\ pc' = "exited"
                => /\ seedCall'.ret = NoValue
                   /\ UNCHANGED <<m_queue, m_usedIndex, m_outCluster, pushed>>
             /\ pc' # "exited" => Len(m_queue') = Len(m_queue) + 1]_vars
    /\ [][pc # "exited"]_vars
    /\ [](pc = "exited" => max = NoMax /\ output = NoValue)

\* addSeed ended fatally for a sequence that is not in the index, after a seed
\* had been enqueued
C7_Witness ==
    /\ pc = "exited"
    /\ seedCall.sequence \in AbsentReads
    /\ seedCall.bCheckInIndex
    /\ m_queue # <<>>

\* C8: addSeed(sequence, false) on a substring of a read returns a node with an
\* invalid interval and leaves the visited set, the queue and the admitted
\* list as they were.
C8_SubstringSeedSkipped ==
    [][(AddSeedStep /\ ~seedCall'.bCheckInIndex /\ isSubstring(seedCall'.sequence))
       => /\ seedCall'.ret # NoValue
          /\ \A node \in Range(seedCall'.ret) :
                node.interval.lower > node.interval.upper
          /\ UNCHANGED <<m_usedIndex, m_queue, m_outCluster>>
          /\ pc' = "seeding"]_vars

\* a substring seed was skipped while a seed was in the queue
C8_Witness ==
    /\ seedCall = SeedCall("CGTA", FALSE, Returned(emptyNode))
    /\ m_queue # <<>>
    /\ m_usedIndex # {}

C10_AdmittedIntervalsValid ==
    \A node \in Range(m_outCluster) : isValid(node.interval)

\* C10, amended: an admitted node, and a node getOutput returns, has a valid
\* interval unless it is a seed whose sequence is neither a substring of a
\* read nor in the index (which addSeed enqueues when bCheckInIndex is false);
\* the nodes built from overlap hits have valid intervals and the emptyNode of
\* a skipped seed is never admitted.
C10_InvalidOnlyAbsentSeed ==
    \A node \in Range(m_outCluster) \cup UNION {Range(v) : v \in Range(output)} :
        \/ isValid(node.interval)
        \/ /\ node.sequence \in AbsentReads
           /\ node = seedNode(node.sequence)

\* getOutput returned a node with an invalid interval next to a node found
\* through an overlap hit
C10_Witness ==
    /\ output # NoValue
    /\ \E node \in Range(output[1]) : ~isValid(node.interval)
    /\ \E node \in Range(output[1]) : isValid(node.interval)
    /\ Len(pushed) > numSeedCalls

\* C11: the list getOutput returns is in ascending order of interval, lower
\* bound first and upper bound second, whatever the order of admission.
C11_OutputSorted ==
    \A retVector \in Range(output) :
        \A i, j \in 1 .. Len(retVector) :
            i < j
            => \/ retVector[i].interval.lower < retVector[j].interval.lower
               \/ /\ retVector[i].interval.lower = retVector[j].interval.lower
                  /\ retVector[i].interval.upper <= retVector[j].interval.upper

\* getOutput returned three nodes that were admitted in another order: a
\* greater lower bound first, and of two equal lower bounds the greater upper
\* bound first
C11_Witness ==
    /\ output # NoValue
    /\ Len(output[1]) = 3
    /\ \E i, j \in 1 .. Len(m_outCluster) :
          i < j /\ m_outCluster[i].interval.lower > m_outCluster[j].interval.lower
    /\ \E i, j \in 1 .. Len(m_outCluster) :
          /\ i < j
          /\ m_outCluster[i].interval.lower = m_outCluster[j].interval.lower
          /\ m_outCluster[i].interval.upper > m_outCluster[j].interval.upper

\* a step of run that admits a node and asks the index for its overlaps
ExpandStep == pc = "run" /\ pc' = "run" /\ m_outCluster' # m_outCluster

\* C12: while run runs and after it the admitted list holds at most max
\* nodes, and getOutput returns at most max nodes; every expansion (one query
\* of the index) admits one node, so run makes at most max of them.
C12_AtMostMaxAdmitted ==
    /\ [](pc \in {"run", "aborted", "completed"}
          => /\ Len(m_outCluster) <= max
             /\ \A retVector \in Range(output) : Len(retVector) <= max)
    /\ [][ExpandStep
          => /\ Len(m_outCluster') = Len(m_outCluster) + 1
             /\ Len(m_outCluster') <= max
             /\ blocks'[Head(m_queue).sequence] # NoBlockList]_vars
    /\ [][(pc = "run" /\ blocks' # blocks) => ExpandStep]_vars
    /\ [][(pc \in {"aborted", "completed"})
          => (m_outCluster' = m_outCluster /\ blocks' = blocks)]_vars

\* run completed with exactly max nodes admitted, max of them found through
\* overlaps or seeded twice
C12_Witness ==
    /\ pc = "completed"
    /\ max = 2
    /\ Len(m_outCluster) = max
    /\ output # NoValue
    /\ Len(output[1]) = max

\* the nodes addSeed pushed, in call order
SeedNodes == SubSeq(pushed, 1, numSeedNodes)

\* the keys of the overlap hits the index returned for a sequence
BlockKeys(sequence) ==
    IF blocks[sequence] = NoBlockList
    THEN {}
    ELSE {getCanonicalInterval(block).lower : block \in Range(blocks[sequence])}

\* the keys of the overlap hits of the admitted nodes whose key is in K
HitKeysFrom(K) ==
    UNION {BlockKeys(node.sequence) :
              node \in {n \in Range(m_outCluster) : Key(n) \in K}}

\* the keys reachable from the keys K through overlap hits
RECURSIVE ReachableKeys(_)
ReachableKeys(K) ==
    LET H == HitKeysFrom(K)
    IN  IF H \subseteq K THEN K ELSE ReachableKeys(K \cup H)

\* the index was asked for the overlaps of every admitted node, the key of
\* every hit it returned is the key of an admitted node, and the keys of the
\* admitted nodes are the keys reachable from the seeds through overlap hits
AdmittedClosed ==
    /\ \A node \in Range(m_outCluster) :
          /\ blocks[node.sequence] # NoBlockList
          /\ BlockKeys(node.sequence) \subseteq Keys(m_outCluster)
    /\ Keys(m_outCluster) = ReachableKeys(Keys(SeedNodes))

\* C13: when run completes, the index was asked for the overlaps of every
\* admitted node and the key of every hit it returned is the key of a node of
\* the output; the keys of the output are exactly the keys reachable from the
\* seeds through overlap hits.  The step that returns from run leaves the
\* admitted list and the answers of the index as they are.
C13_NoMissedNeighbour ==
    /\ [][(pc = "run" /\ pc' = "completed")
          => AdmittedClosed /\ UNCHANGED <<m_outCluster, blocks>>]_vars
    /\ [][(pc = "completed" /\ output = NoValue /\ output' # NoValue)
          => \A retVector \in Range(output') :
                /\ Keys(retVector) = Keys(m_outCluster)
                /\ \A node \in Range(m_outCluster) :
                      BlockKeys(node.sequence) \subseteq Keys(retVector)]_vars

\* run completed from one seed whose second hit led to a new key, and the
\* node of that key had a hit back to the seed
C13_Witness ==
    /\ pc = "completed"
    /\ output # NoValue
    /\ numSeedNodes = 1
    /\ blocks["ACGTACGT"] = <<"ACGTACGT", "CGTACGTTTA">>
    /\ blocks["CGTACGTTTA"] = <<"ACGTACGTTT", "ACGTACGT">>
    /\ Keys(output[1]) = {4, 7}

\* C14: run always terminates; it returns either because the queue became
\* empty or because the bound check fired, and in both cases the queue is
\* empty when it returns.
C14_RunTerminates ==
    /\ (pc = "run") ~> RunReturned
    /\ [][(pc = "run" /\ pc' # "run")
          => \/ pc' = "completed" /\ m_queue = <<>>
             \/ /\ pc' = "aborted"
                /\ m_queue # <<>>
                /\ Len(m_queue) + Len(m_outCluster) > max]_vars
    /\ [](RunReturned => m_queue = <<>>)

\* run returned with an empty queue from one seed whose overlaps lead round a
\* cycle back to it
C14_Witness ==
    /\ pc = "completed"
    /\ numSeedNodes = 1
    /\ blocks["ACGTACGT"] = <<"ACGTACGTTT", "ACGTACGT">>
    /\ blocks["ACGTACGTTT"] = <<"ACGTACGT", "CGTACGTTTA">>
    /\ m_queue = <<>>
    /\ Len(m_outCluster) = 2

\* the keys within d overlap hops of the seeds
RECURSIVE KeysWithin(_)
KeysWithin(d) ==
    IF d = 0
    THEN Keys(SeedNodes)
    ELSE LET K == KeysWithin(d - 1) IN K \cup HitKeysFrom(K)

\* the hop distance of a key from the seeds
HopDistance(k) ==
    CHOOSE d \in 0 .. Len(pushed) :
        /\ k \in KeysWithin(d)
        /\ d > 0 => k \notin KeysWithin(d - 1)

\* hop distances never decrease from one admitted node to the next
HopOrdered ==
    \A i \in 1 .. (Len(m_outCluster) - 1) :
        HopDistance(Key(m_outCluster[i])) <= HopDistance(Key(m_outCluster[i + 1]))

\* C15: until run aborts, the admitted list followed by the queue is the list
\* of the nodes in the order they were enqueued, so nodes are admitted in the
\* order of their enqueueing; the seeds are admitted first, in the order they
\* were added; and when run completes, no node of the admitted list comes
\* after a node at a larger hop distance from the seeds.
C15_AdmittedInEnqueueOrder ==
    /\ [](pc \in {"seeding", "run", "completed"}
          => /\ m_outCluster \o m_queue = pushed
             /\ \A i \in 1 .. Len(m_outCluster) :
                   i <= numSeedNodes => m_outCluster[i] = SeedNodes[i])
    /\ [][(pc = "run" /\ pc' = "completed")
          => HopOrdered /\ UNCHANGED <<m_outCluster, blocks>>]_vars

\* run completed from a seed added twice; the hit of the first copy was
\* enqueued behind the second copy and admitted after it, and the read two hops
\* from the seeds was admitted last
C15_Witness ==
    /\ pc = "completed"
    /\ numSeedNodes = 2
    /\ Len(m_outCluster) = 4
    /\ m_outCluster[1].sequence = "GGGG"
    /\ m_outCluster[2].sequence = "GGGG"
    /\ m_outCluster[3].sequence = "ACGTACGT"
    /\ m_outCluster[4].sequence = "CGTACGTTTA"
    /\ HopDistance(Key(m_outCluster[3])) = 1
    /\ HopDistance(Key(m_outCluster[4])) = 2

\* some node answered by a block list that reaches one read through two edges
TwoEdgeExpanded ==
    \E node \in Range(m_outCluster) : blocks[node.sequence] \in TwoEdgeLists

SuccessfulSeedStep ==
    /\ AddSeedStep
    /\ ~isSubstring(seedCall'.sequence)
    /\ ~FatalSeed(seedCall'.sequence, seedCall'.bCheckInIndex)

\* C17: a successful addSeed call appends one node to the back of the queue,
\* with the sequence of the call, the interval the index computes for it and
\* the forward orientation; it adds the lower bound of that interval to the
\* visited set, returns that node and leaves the admitted list unchanged.  An
\* addSeed call that is not successful leaves the queue unchanged, so before
\* run the queue holds the seeds of the successful calls in call order.
C17_SuccessfulSeedEnqueued ==
    /\ [][SuccessfulSeedStep
          => LET node == ClusterNode(seedCall'.sequence,
                                     findInterval(seedCall'.sequence), FALSE)
             IN  /\ m_queue' = Append(m_queue, node)
                 /\ m_usedIndex' = m_usedIndex \cup {node.interval.lower}
                 /\ seedCall'.ret = Returned(node)
                 /\ m_outCluster' = m_outCluster
                 /\ numSeedNodes' = numSeedNodes + 1]_vars
    /\ [][(AddSeedStep /\ ~SuccessfulSeedStep)
          => UNCHANGED <<m_queue, m_usedIndex, m_outCluster, numSeedNodes>>]_vars
    /\ [](pc = "seeding"
          => /\ Len(m_queue) = numSeedNodes
             /\ m_queue = pushed
             /\ m_outCluster = <<>>
             /\ \A i \in 1 .. Len(m_queue) :
                   /\ m_queue[i].interval = findInterval(m_queue[i].sequence)
                   /\ ~m_queue[i].isReverseInterval
                   /\ m_queue[i].interval.lower \in m_usedIndex)

\* two successful calls before run, the second for a sequence that is not in
\* the index and without the index check
C17_Witness ==
    /\ pc = "seeding"
    /\ numSeedCalls = 2
    /\ m_queue = <<ClusterNode("ACGTACGT", BWTInterval(4, 4), FALSE),
                   ClusterNode("GGGG", BWTInterval(9, 8), FALSE)>>
    /\ m_usedIndex = {4, 9}
    /\ seedCall = SeedCall("GGGG", FALSE, Returned(m_queue[2]))
    /\ m_outCluster = <<>>

\* C18: in every state the key of every node of the queue and of every node
\* of the admitted list is in the visited set, and no step removes a key from
\* the visited set.
C18_QueuedAndAdmittedAreVisited ==
    /\ [](Keys(m_queue) \cup Keys(m_outCluster) \subseteq m_usedIndex)
    /\ [][m_usedIndex \subseteq m_usedIndex']_vars

\* during run, after seeds and run iterations: a node is admitted, a node it
\* discovered is pending, and the visited set holds both keys
C18_Witness ==
    /\ pc = "run"
    /\ m_outCluster # <<>>
    /\ m_queue # <<>>
    /\ Len(pushed) > numSeedNodes
    /\ Keys(m_queue) # Keys(m_outCluster)
    /\ m_usedIndex = Keys(m_queue) \cup Keys(m_outCluster)

\* the intervals of a list of nodes
Intervals(v) == [i \in 1 .. Len(v) |-> v[i].interval]

\* the list v with its elements i and i + 1 exchanged
swap(v, i) ==
    [k \in 1 .. Len(v) |->
        CASE k = i     -> v[i + 1]
          [] k = i + 1 -> v[i]
          [] OTHER     -> v[k]]

\* the overlap hits an index has answered with
HitBlocks(oracle) ==
    UNION {Range(oracle[sequence]) :
              sequence \in {t \in Sequences : oracle[t] # NoBlockList}}

\* no two different blocks lead to reads with the same lower bound
KeyInjective(B) ==
    \A b1, b2 \in B :
        getCanonicalInterval(b1).lower = getCanonicalInterval(b2).lower => b1 = b2

\* the block lists an index can answer with for a sequence: the list it has
\* answered with before or, for a sequence it was never asked about, any list
\* (any list that keeps the hits free of shared lower bounds, if injective)
AnswersFor(oracle, sequence, injective) ==
    IF oracle[sequence] # NoBlockList
    THEN {oracle[sequence]}
    ELSE IF injective
         THEN {l \in BlockLists : KeyInjective(HitBlocks(oracle) \cup Range(l))}
         ELSE BlockLists

\* run(m) and getOutput() executed from a queue, an admitted list and a
\* visited set against an index: whether run aborts and the interval lists
\* getOutput can return, for every index that agrees with `oracle`
RECURSIVE replay(_, _, _, _, _, _)
replay(queue, outCluster, usedIndex, oracle, m, injective) ==
    IF queue = <<>>
    THEN {[aborted |-> FALSE,
           retVectors |-> {Intervals(v) : v \in getOutput(outCluster)}]}
    ELSE IF boundExceeded(queue, outCluster, m)
         THEN {[aborted |-> TRUE,
                retVectors |-> {Intervals(v) : v \in getOutput(<<>>)}]}
         ELSE LET node == Head(queue)
              IN  UNION {LET st == parseBlockList(blockList, node,
                                       [usedIndex |-> usedIndex,
                                        queue |-> Tail(queue),
                                        pushed |-> <<>>])
                         IN  replay(st.queue, Append(outCluster, node),
                                    st.usedIndex,
                                    [oracle EXCEPT ![node.sequence] = blockList],
                                    m, injective) :
                           blockList \in AnswersFor(oracle, node.sequence, injective)}

\* the seeds of the run with two neighbouring seeds exchanged
SeedOrders == {swap(SeedNodes, i) : i \in 1 .. (Len(SeedNodes) - 1)}

\* the answers of the index with two neighbouring hits of one list exchanged
HitOrders ==
    UNION {{[blocks EXCEPT ![sequence] = swap(blocks[sequence], i)] :
               i \in 1 .. (Len(blocks[sequence]) - 1)} :
              sequence \in {t \in Sequences : blocks[t] # NoBlockList}}

\* the results of the run repeated with the seeds added in another order or
\* with the hits of one node listed in another order.  Exchanges of
\* neighbours generate every order, and every order is itself a run.
Reruns(injective) ==
    UNION ({replay(seeds, <<>>, Keys(seeds), blocks, max, injective) :
               seeds \in SeedOrders}
           \cup {replay(SeedNodes, <<>>, Keys(SeedNodes), oracle, max, injective) :
                    oracle \in HitOrders})

GetOutputStep == output = NoValue /\ output' # NoValue

\* a rerun ends as this run did and getOutput returns the same interval lists
SameResult(r) ==
    /\ r.aborted = (pc = "aborted")
    /\ r.retVectors = {Intervals(v) : v \in getOutput(m_outCluster)}
    /\ Intervals(output'[1]) \in r.retVectors

====
